---- MODULE Spec2Model ----
(***************************************************************************)
(* Model of the srec crate: the checksum, the record writer, the record    *)
(* reader and the memory image.                                            *)
(*                                                                         *)
(* Text (a Rust &str / String) is modelled as the sequence of its UTF-8    *)
(* bytes, a byte being a number in 0..255: "S" is 83, "\n" is 10, the hex  *)
(* digits are 48..57, 65..70 and 97..102.  A Vec<u8> is a sequence of      *)
(* bytes.  A Result is a record with a kind ("Ok", "Err" or "Panic").      *)
(***************************************************************************)
EXTENDS Integers, Sequences, FiniteSets, TLC

VARIABLES
    pc,         \* position of the running scenario
    records,    \* the record slice handed to generate_srec_file
    text,       \* the text generated by the writer / handed to read_records
    rest,       \* the part of text the read_records iterator has not consumed
    out,        \* the elements the read_records iterator has yielded so far
    rewritten,  \* the text generated from the records that were read
    line,       \* the line handed to Record::from_str
    result,     \* the value Record::from_str returned for line
    summed,     \* the bytes handed to checksum_of
    sum,        \* the value checksum_of returned for summed
    blocks,     \* Image::blocks
    inserted,   \* every (address, data) pair passed to an add_data call that returned
    last_call,  \* the arguments of the latest add_data call
    overflow_checks, \* TRUE for a build with overflow checks (debug), FALSE for one without (release)
    address_format,  \* the AddressFormat handed to image_records
    max_address,     \* the Option image_records computes when called: <<>> for None, <<a>> for Some(a)
    emitted          \* the records the iterator of image_records has yielded so far

vars == <<pc, records, text, rest, out, rewritten, line, result, summed, sum, blocks, inserted, last_call, overflow_checks,
         address_format, max_address, emitted>>

codec_vars == <<records, text, rest, out, rewritten>>
parse_vars == <<line, result>>
checksum_vars == <<summed, sum>>
image_vars == <<blocks, inserted, last_call, overflow_checks, address_format, max_address, emitted>>
records_vars == <<address_format, max_address, emitted>>

----------------------------------------------------------------------------
(* Generic helpers *)

Byte == 0..255

SeqsUpTo(S, n) == UNION {[1..k -> S] : k \in 0..n}

Drop(s, k) == SubSeq(s, k + 1, Len(s))

Take(s, k) == SubSeq(s, 1, k)

RECURSIVE Concat(_)
Concat(ss) == IF ss = <<>> THEN <<>> ELSE Head(ss) \o Concat(Tail(ss))

Min(S) == CHOOSE x \in S : \A y \in S : x <= y

----------------------------------------------------------------------------
(* Characters *)

CharS == 83
CharLF == 10
CharCR == 13
CharPlus == 43

IsDigit(c) == c \in 48..57

IsHexDigit_upper_only(c) == c \in 48..57 \/ c \in 65..70

IsHexDigit(c) == c \in 48..57 \/ c \in 65..70 \/ c \in 97..102

\* char::to_digit(16)
HexVal(c) ==
    IF c \in 48..57 THEN c - 48
    ELSE IF c \in 65..70 THEN c - 55
    ELSE c - 87

\* one digit of format!("{:X}")
UpperHexDigit(d) == IF d < 10 THEN 48 + d ELSE 55 + d

\* format!("{:02X}", b) for a u8
FormatHex2(b) == <<UpperHexDigit(b \div 16), UpperHexDigit(b % 16)>>

\* str::is_char_boundary: index k (a byte offset) of s
IsCharBoundary(s, k) ==
    \/ k = 0
    \/ k = Len(s)
    \/ k < Len(s) /\ s[k + 1] \notin 128..191

----------------------------------------------------------------------------
(* Checksum *)

\* the sum of data[lo..hi] in Wrapping<u8> arithmetic, by halves
RECURSIVE WrappingSumOf(_, _, _)
WrappingSumOf(data, lo, hi) ==
    IF lo > hi THEN 0
    ELSE IF lo = hi THEN data[lo] % 256
    ELSE LET mid == (lo + hi) \div 2
         IN (WrappingSumOf(data, lo, mid) + WrappingSumOf(data, mid + 1, hi)) % 256

WrappingSum(data) == WrappingSumOf(data, 1, Len(data))

checksum_of_negated(data) == (256 - WrappingSum(data)) % 256

checksum_of(data) == 255 - WrappingSum(data)

----------------------------------------------------------------------------
(* Record model *)

\* A Record is [t, address, data]: t the variant (0 for S0 ... 9 for S9),
\* address the Address16/Address24/Address32/Count16/Count24 value (zero
\* for S0, which has none), data the payload bytes (the bytes of the String
\* for S0, empty for S5..S9).
Rec(t, address, data) == [t |-> t, address |-> address, data |-> data]

NoRec == Rec(10, <<0, 0>>, <<>>)

\* width in bytes of the address / count field of each variant
AddressWidth(t) ==
    CASE t \in {0, 1, 5, 9} -> 2
      [] t \in {2, 6, 8} -> 3
      [] OTHER -> 4

\* A u32 (and, with hi = 0, a u16) is the pair <<hi, lo>> of its 16-bit
\* halves: its value is hi * 65536 + lo.
u32(hi, lo) == <<hi, lo>>

U32Lt(a, b) == a[1] < b[1] \/ (a[1] = b[1] /\ a[2] < b[2])

U32Le(a, b) == a = b \/ U32Lt(a, b)

\* a + n for a small n >= 0, without reduction: the first half may exceed 65535
U32AddWide(a, n) == <<a[1] + (a[2] + n) \div 65536, (a[2] + n) % 65536>>

\* a + n overflows 32 bits
U32AddOverflows(a, n) == U32AddWide(a, n)[1] > 65535

\* u32::wrapping_add
U32AddWrapping(a, n) == <<U32AddWide(a, n)[1] % 65536, U32AddWide(a, n)[2]>>

\* u16::to_be_bytes on a 16-bit half
BeBytes16_little(h) == <<h % 256, h \div 256>>

BeBytes16(h) == <<h \div 256, h % 256>>

\* u32::to_be_bytes
BeBytes32(v) == BeBytes16(v[1]) \o BeBytes16(v[2])

\* u16::from_be_bytes / u32::from_be_bytes on the last bytes of a zeroed
\* 4-byte array
from_be_bytes_reversed(bs) ==
    LET padded == [i \in 1..(4 - Len(bs)) |-> 0] \o bs
    IN u32(padded[4] * 256 + padded[3], padded[2] * 256 + padded[1])

from_be_bytes(bs) ==
    LET padded == [i \in 1..(4 - Len(bs)) |-> 0] \o bs
    IN u32(padded[1] * 256 + padded[2], padded[3] * 256 + padded[4])

Address16_to_be_bytes(v) == BeBytes16(v[2])

Address24_to_be_bytes_high(v) == Take(BeBytes32(v), 3)

Address24_to_be_bytes(v) == Drop(BeBytes32(v), 1)

Address32_to_be_bytes(v) == BeBytes32(v)

to_be_bytes_all_four(t, v) ==
    CASE AddressWidth(t) = 2 -> Address16_to_be_bytes(v)
      [] OTHER -> Address32_to_be_bytes(v)

to_be_bytes(t, v) ==
    CASE AddressWidth(t) = 2 -> Address16_to_be_bytes(v)
      [] AddressWidth(t) = 3 -> Address24_to_be_bytes(v)
      [] OTHER -> Address32_to_be_bytes(v)

----------------------------------------------------------------------------
(* Writer *)

HexString(bytes) ==
    [i \in 1..(2 * Len(bytes)) |->
        IF i % 2 = 1 THEN UpperHexDigit(bytes[(i + 1) \div 2] \div 16)
        ELSE UpperHexDigit(bytes[i \div 2] % 16)]

\* the bytes vector after bytes[0] is set: the count is cast with "as u8"
make_record_bytes(address_bytes, data) ==
    LET bytes == <<0>> \o address_bytes \o data
    IN <<Len(bytes) % 256>> \o Tail(bytes)

make_record(t, address_bytes, data) ==
    LET bytes == make_record_bytes(address_bytes, data)
    IN <<CharS, 48 + t>> \o HexString(bytes) \o FormatHex2(checksum_of(bytes))

encode(r) ==
    IF r.t = 0 THEN make_record(0, Address16_to_be_bytes(u32(0, 0)), r.data)
    ELSE IF r.t \in {1, 2, 3} THEN make_record(r.t, to_be_bytes(r.t, r.address), r.data)
    ELSE make_record(r.t, to_be_bytes(r.t, r.address), <<>>)

generate_srec_file(rs) ==
    Concat([i \in 1..Len(rs) |-> encode(rs[i]) \o <<CharLF>>])

----------------------------------------------------------------------------
(* Reader *)

Ok(r) == [kind |-> "Ok", err |-> "", rec |-> r]

Err(e) == [kind |-> "Err", err |-> e, rec |-> NoRec]

Panic(msg) == [kind |-> "Panic", err |-> msg, rec |-> NoRec]

RawOk(t, bytes) == [kind |-> "Ok", err |-> "", t |-> t, bytes |-> bytes]

RawErr(e) == [kind |-> "Err", err |-> e, t |-> 0, bytes |-> <<>>]

RawPanic(msg) == [kind |-> "Panic", err |-> msg, t |-> 0, bytes |-> <<>>]

\* u8::from_str_radix / usize::from_str_radix with radix 16 on a non-empty
\* string: an optional leading '+', then at least one digit, digits only
from_str_radix_16_valid(src) ==
    LET digits == IF src[1] = CharPlus THEN Tail(src) ELSE src
    IN digits # <<>> /\ \A i \in DOMAIN digits : IsHexDigit(digits[i])

from_str_radix_16_from_one(src) ==
    LET digits == IF src[1] = CharPlus THEN Tail(src) ELSE src
        RECURSIVE Go(_, _)
        Go(acc, s) == IF s = <<>> THEN acc ELSE Go(acc * 16 + HexVal(Head(s)), Tail(s))
    IN Go(1, digits)

from_str_radix_16(src) ==
    LET digits == IF src[1] = CharPlus THEN Tail(src) ELSE src
        RECURSIVE Go(_, _)
        Go(acc, s) == IF s = <<>> THEN acc ELSE Go(acc * 16 + HexVal(Head(s)), Tail(s))
    IN Go(0, digits)

\* the for loop of raw_record_from_str: outcome of iteration i on the text s
\* that follows the byte count field
ReadByteStep_digits_first(s, i) ==
    IF Len(s) - 2 * (i - 1) < 1 THEN "NotEnoughData"
    ELSE IF Len(s) - 2 * (i - 1) < 2 THEN "UnexpectedCharacter"
    ELSE IF ~IsCharBoundary(s, 2 * i) THEN "Panic"
    ELSE IF ~from_str_radix_16_valid(SubSeq(s, 2 * i - 1, 2 * i)) THEN "UnexpectedCharacter"
    ELSE "Ok"

ReadByteStep(s, i) ==
    IF Len(s) - 2 * (i - 1) < 2 THEN "NotEnoughData"
    ELSE IF ~IsCharBoundary(s, 2 * i) THEN "Panic"
    ELSE IF ~from_str_radix_16_valid(SubSeq(s, 2 * i - 1, 2 * i)) THEN "UnexpectedCharacter"
    ELSE "Ok"

checksum_input_without_count(byte_count, bytes) == bytes

checksum_input(byte_count, bytes) == <<byte_count % 256>> \o bytes

raw_record_from_str_whole_line(s) ==
    IF Len(s) < 1 THEN RawErr("NotEnoughData")
    ELSE IF ~IsCharBoundary(s, 1) THEN RawPanic("split_at")
    ELSE IF s[1] # CharS THEN RawErr("UnexpectedCharacter")
    ELSE LET s1 == Drop(s, 1) IN
    IF Len(s1) < 1 THEN RawErr("NotEnoughData")
    ELSE IF ~IsCharBoundary(s1, 1) THEN RawPanic("split_at")
    ELSE IF ~IsDigit(s1[1]) THEN RawErr("UnexpectedCharacter")
    ELSE LET t == s1[1] - 48
             s2 == Drop(s1, 1) IN
    IF Len(s2) < 2 THEN RawErr("NotEnoughData")
    ELSE IF ~IsCharBoundary(s2, 2) THEN RawPanic("split_at")
    ELSE IF ~from_str_radix_16_valid(Take(s2, 2)) THEN RawErr("UnexpectedCharacter")
    ELSE LET byte_count == from_str_radix_16(Take(s2, 2))
             s3 == Drop(s2, 2) IN
    IF byte_count = 0 THEN RawErr("ByteCountZero")
    ELSE LET failing == {i \in 1..byte_count : ReadByteStep(s3, i) # "Ok"} IN
    IF failing # {} THEN
        LET outcome == ReadByteStep(s3, Min(failing))
        IN IF outcome = "Panic" THEN RawPanic("split_at") ELSE RawErr(outcome)
    ELSE LET all == [i \in 1..byte_count |-> from_str_radix_16(SubSeq(s3, 2 * i - 1, 2 * i))]
             checksum == all[byte_count]
             bytes == Take(all, byte_count - 1)
    IN IF Len(s3) > 2 * byte_count THEN RawErr("UnexpectedCharacter")
       ELSE IF checksum = checksum_of(checksum_input(byte_count, bytes))
       THEN RawOk(t, bytes)
       ELSE RawErr("ChecksumMismatch")

raw_record_from_str(s) ==
    IF Len(s) < 1 THEN RawErr("NotEnoughData")
    ELSE IF ~IsCharBoundary(s, 1) THEN RawPanic("split_at")
    ELSE IF s[1] # CharS THEN RawErr("UnexpectedCharacter")
    ELSE LET s1 == Drop(s, 1) IN
    IF Len(s1) < 1 THEN RawErr("NotEnoughData")
    ELSE IF ~IsCharBoundary(s1, 1) THEN RawPanic("split_at")
    ELSE IF ~IsDigit(s1[1]) THEN RawErr("UnexpectedCharacter")
    ELSE LET t == s1[1] - 48
             s2 == Drop(s1, 1) IN
    IF Len(s2) < 2 THEN RawErr("NotEnoughData")
    ELSE IF ~IsCharBoundary(s2, 2) THEN RawPanic("split_at")
    ELSE IF ~from_str_radix_16_valid(Take(s2, 2)) THEN RawErr("UnexpectedCharacter")
    ELSE LET byte_count == from_str_radix_16(Take(s2, 2))
             s3 == Drop(s2, 2) IN
    IF byte_count = 0 THEN RawErr("ByteCountZero")
    ELSE LET failing == {i \in 1..byte_count : ReadByteStep(s3, i) # "Ok"} IN
    IF failing # {} THEN
        LET outcome == ReadByteStep(s3, Min(failing))
        IN IF outcome = "Panic" THEN RawPanic("split_at") ELSE RawErr(outcome)
    ELSE LET all == [i \in 1..byte_count |-> from_str_radix_16(SubSeq(s3, 2 * i - 1, 2 * i))]
             checksum == all[byte_count]
             bytes == Take(all, byte_count - 1)
    IN IF checksum = checksum_of(checksum_input(byte_count, bytes))
       THEN RawOk(t, bytes)
       ELSE RawErr("ChecksumMismatch")

\* the length of the UTF-8 sequence that the byte b starts (0: b starts none)
Utf8Width(b) ==
    IF b \in 0..127 THEN 1
    ELSE IF b \in 194..223 THEN 2
    ELSE IF b \in 224..239 THEN 3
    ELSE IF b \in 240..244 THEN 4
    ELSE 0

\* the values allowed for the byte that follows the first byte b
Utf8Second(b) ==
    IF b = 224 THEN 160..191
    ELSE IF b = 237 THEN 128..159
    ELSE IF b = 240 THEN 144..191
    ELSE IF b = 244 THEN 128..143
    ELSE 128..191

\* core::str::from_utf8(..).is_ok(): every byte that is not a continuation
\* byte starts a well-formed sequence, which is followed by such a byte again
IsValidUtf8(bs) ==
    /\ bs # <<>> => bs[1] \notin 128..191
    /\ \A i \in DOMAIN bs :
          bs[i] \notin 128..191 =>
              LET w == Utf8Width(bs[i]) IN
              /\ w > 0
              /\ i + w - 1 <= Len(bs)
              /\ w >= 2 => bs[i + 1] \in Utf8Second(bs[i])
              /\ \A j \in (i + 2)..(i + w - 1) : bs[j] \in 128..191
              /\ i + w <= Len(bs) => bs[i + w] \notin 128..191

\* str::trim_end_matches('\0')
trim_end_matches_nul_once(bs) ==
    IF bs # <<>> /\ bs[Len(bs)] = 0 THEN Take(bs, Len(bs) - 1) ELSE bs

trim_end_matches_nul(bs) ==
    IF \A i \in DOMAIN bs : bs[i] = 0 THEN <<>>
    ELSE Take(bs, CHOOSE i \in DOMAIN bs :
                      bs[i] # 0 /\ \A j \in (i + 1)..Len(bs) : bs[j] = 0)

\* the match arms of Record::from_str on a raw record
S0_from_raw(bytes) ==
    IF Len(bytes) < 2 THEN Panic("slice index")
    ELSE IF ~IsValidUtf8(Drop(bytes, 2)) THEN Panic("Invalid UTF-8 bytes in S0 data")
    ELSE Ok(Rec(0, u32(0, 0), trim_end_matches_nul(Drop(bytes, 2))))

Data_from_raw(t, bytes) ==
    IF Len(bytes) < AddressWidth(t) THEN Err("NotEnoughData")
    ELSE Ok(Rec(t, from_be_bytes(Take(bytes, AddressWidth(t))), Drop(bytes, AddressWidth(t))))

Fixed_from_raw_at_least(t, bytes) ==
    IF Len(bytes) < AddressWidth(t) THEN Err("NotEnoughData")
    ELSE Ok(Rec(t, from_be_bytes(Take(bytes, AddressWidth(t))), <<>>))

Fixed_from_raw(t, bytes) ==
    IF Len(bytes) # AddressWidth(t) THEN Err("NotEnoughData")
    ELSE Ok(Rec(t, from_be_bytes(bytes), <<>>))

Record_from_str_s4_as_data(s) ==
    LET rr == raw_record_from_str(s) IN
    IF rr.kind = "Panic" THEN Panic(rr.err)
    ELSE IF rr.kind = "Err" THEN Err(rr.err)
    ELSE IF rr.t = 0 THEN S0_from_raw(rr.bytes)
    ELSE IF rr.t \in {1, 2, 3, 4} THEN Data_from_raw(rr.t, rr.bytes)
    ELSE IF rr.t \in {5, 6, 7, 8, 9} THEN Fixed_from_raw(rr.t, rr.bytes)
    ELSE Err("UnexpectedCharacter")

Record_from_str(s) ==
    LET rr == raw_record_from_str(s) IN
    IF rr.kind = "Panic" THEN Panic(rr.err)
    ELSE IF rr.kind = "Err" THEN Err(rr.err)
    ELSE IF rr.t = 0 THEN S0_from_raw(rr.bytes)
    ELSE IF rr.t \in {1, 2, 3} THEN Data_from_raw(rr.t, rr.bytes)
    ELSE IF rr.t \in {5, 6, 7, 8, 9} THEN Fixed_from_raw(rr.t, rr.bytes)
    ELSE Err("UnexpectedCharacter")

\* char::is_whitespace on the ASCII range
IsWhitespace_spaces_only(c) == c = 32

IsWhitespace(c) == c \in 9..13 \/ c = 32

\* str::trim
trim_start(s) ==
    IF \A i \in DOMAIN s : IsWhitespace(s[i]) THEN <<>>
    ELSE Drop(s, (CHOOSE i \in DOMAIN s :
                      ~IsWhitespace(s[i]) /\ \A j \in 1..(i - 1) : IsWhitespace(s[j])) - 1)

trim_end(s) ==
    IF \A i \in DOMAIN s : IsWhitespace(s[i]) THEN <<>>
    ELSE Take(s, CHOOSE i \in DOMAIN s :
                     ~IsWhitespace(s[i]) /\ \A j \in (i + 1)..Len(s) : IsWhitespace(s[j]))

trim(s) == trim_end(trim_start(s))

\* str::lines: the next line of a non-empty s and what remains after it
LinesNext(s) ==
    LET nl == {i \in DOMAIN s : s[i] = CharLF} IN
    IF nl = {} THEN [line |-> s, rest |-> <<>>]
    ELSE LET i == Min(nl)
             raw == Take(s, i - 1)
         IN [line |-> IF raw # <<>> /\ raw[Len(raw)] = CharCR
                      THEN Take(raw, Len(raw) - 1) ELSE raw,
             rest |-> Drop(s, i)]

\* all lines of s, as str::lines yields them
RECURSIVE Lines(_)
Lines(s) ==
    IF s = <<>> THEN <<>>
    ELSE <<LinesNext(s).line>> \o Lines(LinesNext(s).rest)

\* the text the iterator of read_records is left with after skipping the
\* lines its filter drops
RECURSIVE SkipBlank(_)
SkipBlank(s) ==
    IF s = <<>> THEN s
    ELSE IF trim(LinesNext(s).line) = <<>> THEN SkipBlank(LinesNext(s).rest)
    ELSE s

\* everything the iterator of read_records yields for the text s, and whether
\* a call of next() failed fatally
RECURSIVE read_records_from(_, _)
read_records_from(s, acc) ==
    LET parsed(ln, r) ==
            IF r.kind = "Panic" THEN [out |-> acc, panicked |-> TRUE]
            ELSE read_records_from(ln.rest, Append(acc, r))
        found(ln) == parsed(ln, Record_from_str(trim(ln.line)))
        skipped(s1) ==
            IF s1 = <<>> THEN [out |-> acc, panicked |-> FALSE]
            ELSE found(LinesNext(s1))
    IN skipped(SkipBlank(s))

read_records(s) == read_records_from(s, <<>>)

----------------------------------------------------------------------------
(* Bounds and input pools *)

MaxRecords == 2

MaxDataLen == 2

MaxLines == 3

MaxParseLen == 5

\* payload bytes the enumerated records are built from
DataBytes == {0, 72}

\* a payload of n bytes, all different from their neighbours
LongData(n) == [i \in 1..n |-> i % 256]

S0Texts == SeqsUpTo(DataBytes, MaxDataLen) \cup {<<195, 169>>, <<72, 195, 169, 0>>}

\* records of every variant; the long ones have byte counts 255 (the
\* largest a line can declare), 256 and 257
RecordPool ==
    {Rec(0, u32(0, 0), d) : d \in S0Texts}
    \cup {Rec(1, u32(0, 4660), d) : d \in {<<>>, <<0, 72>>}}
    \cup {Rec(2, a, <<1, 2>>) : a \in {u32(18, 13398), u32(255, 65535), u32(256, 1)}}
    \cup {Rec(3, u32(4660, 22136), <<171>>), Rec(3, u32(65535, 65535), <<>>)}
    \cup {Rec(5, u32(0, 4660), <<>>), Rec(6, u32(18, 13398), <<>>),
          Rec(7, u32(4660, 22136), <<>>), Rec(8, u32(18, 13398), <<>>),
          Rec(8, u32(256, 0), <<>>), Rec(9, u32(0, 65535), <<>>),
          Rec(6, u32(43981, 5), <<>>)}
    \cup {Rec(1, u32(0, 4660), LongData(n)) : n \in {252, 253, 254}}
    \cup {Rec(3, u32(4660, 22136), LongData(251))}

----------------------------------------------------------------------------
(* Scenario 1: generate_srec_file, then read_records on the text *)

IdleImage ==
    /\ blocks = <<>>
    /\ inserted = <<>>
    /\ last_call = <<>>
    /\ overflow_checks = FALSE
    /\ address_format = ""
    /\ max_address = <<>>
    /\ emitted = <<>>

IdleParse ==
    /\ line = <<>>
    /\ result = Err("")

IdleChecksum ==
    /\ summed = <<>>
    /\ sum = 0

Init ==
    /\ pc = "generate"
    /\ records \in SeqsUpTo(RecordPool, MaxRecords)
    /\ text = <<>>
    /\ rest = <<>>
    /\ out = <<>>
    /\ rewritten = <<>>
    /\ IdleParse
    /\ IdleChecksum
    /\ IdleImage

\* generate_srec_file(&records) returns
Generate ==
    /\ pc = "generate"
    /\ text' = generate_srec_file(records)
    /\ rest' = text'
    /\ pc' = "read"
    /\ UNCHANGED <<records, out, rewritten, parse_vars, checksum_vars, image_vars>>

\* next() on the iterator of read_records finds a non-blank line
ReadNext ==
    /\ pc = "read"
    /\ \E s \in {SkipBlank(rest)} :
          /\ s # <<>>
          /\ \E ln \in {LinesNext(s)} :
                \E r \in {Record_from_str(trim(ln.line))} :
                    /\ rest' = ln.rest
                    /\ IF r.kind = "Panic"
                       THEN pc' = "panicked" /\ out' = out
                       ELSE pc' = "read" /\ out' = Append(out, r)
    /\ UNCHANGED <<records, text, rewritten, parse_vars, checksum_vars, image_vars>>

\* next() on the iterator of read_records returns None
ReadEnd ==
    /\ pc = "read"
    /\ SkipBlank(rest) = <<>>
    /\ rest' = <<>>
    /\ pc' = "done"
    /\ UNCHANGED <<records, text, out, rewritten, parse_vars, checksum_vars, image_vars>>

\* the records read are unwrapped and handed to generate_srec_file
Rewrite ==
    /\ pc = "done"
    /\ IF \A i \in DOMAIN out : out[i].kind = "Ok"
       THEN /\ rewritten' = generate_srec_file([i \in DOMAIN out |-> out[i].rec])
            /\ pc' = "rewritten"
       ELSE /\ rewritten' = rewritten
            /\ pc' = "unwrap_panicked"
    /\ UNCHANGED <<records, text, rest, out, parse_vars, checksum_vars, image_vars>>

Next == Generate \/ ReadNext \/ ReadEnd \/ Rewrite

Spec == Init /\ [][Next]_vars

----------------------------------------------------------------------------
(* Scenario 2: read_records on a text made of good, bad and blank lines *)

\* a line with the fields of a record line: 'S', the type digit, the count
\* of the bytes that follow, the bytes
MkLine(t, bytes) == <<CharS, 48 + t>> \o FormatHex2(Len(bytes)) \o HexString(bytes)

\* the same with a trailing byte that makes the checksum right
MkValidLine(t, payload) ==
    MkLine(t, payload \o <<checksum_of(<<Len(payload) + 1>> \o payload)>>)

ReadLinePool ==
    { MkValidLine(9, <<18, 52>>),                   \* S9031234B6
      MkLine(9, <<18, 52, 180>>),                   \* S9031234B4: wrong checksum
      MkValidLine(0, <<>>),                         \* S001FE: header without address
      <<>>,                                         \* empty line
      <<32, 9>>,                                    \* whitespace only
      <<CharS, 57>>,                                \* S9: truncated
      <<32>> \o MkValidLine(1, <<18, 52, 0>>) \o <<32>> }

LineTerminators == {<<CharLF>>, <<CharCR, CharLF>>}

\* the texts of at most n terminated lines, and the same without their last
\* character
TextPool(n) ==
    LET items == {l \o e : l \in ReadLinePool, e \in LineTerminators}
        whole == {Concat(ls) : ls \in SeqsUpTo(items, n)}
    IN whole \cup {Take(s, Len(s) - 1) : s \in whole \ {<<>>}}

InitRead ==
    /\ pc = "read"
    /\ records = <<>>
    /\ text \in TextPool(MaxLines)
    /\ rest = text
    /\ out = <<>>
    /\ rewritten = <<>>
    /\ IdleParse
    /\ IdleChecksum
    /\ IdleImage

NextRead == ReadNext \/ ReadEnd

SpecRead == InitRead /\ [][NextRead]_vars

----------------------------------------------------------------------------
(* Scenario 3: Record::from_str on one line *)

\* payloads whose interpretation as UTF-8 matters for S0
Utf8Payloads ==
    {<<0, 0>> \o d : d \in {<<195, 169>>, <<195>>, <<169>>, <<255>>, <<72, 0, 0>>,
                           <<0, 72, 0>>, <<226, 130, 172>>, <<72, 195>>}}

\* payloads that are followed by every possible trailing byte
ChecksumPayloads == {<<>>, <<18, 52>>}

LinePool ==
    {MkValidLine(t, d) : t \in 0..9, d \in SeqsUpTo(DataBytes, MaxParseLen)}
    \cup {MkValidLine(0, d) : d \in Utf8Payloads}
    \cup {MkLine(t, d \o <<c>>) : t \in 0..9, d \in ChecksumPayloads, c \in Byte}

\* valid lines that the malformed lines are derived from
BaseLines ==
    { MkValidLine(1, <<18, 52, 0>>),                \* S104123400B5
      MkValidLine(9, <<18, 52>>),                   \* S9031234B6
      MkValidLine(0, <<0, 0, 72>>),                 \* S00400004873
      MkValidLine(4, <<18, 52>>) }                  \* S4031234B6

\* characters that are not hexadecimal digits: 'G', 'g', '+', '-', ' ', 'x'
NonHexChars == {71, 103, 43, 45, 32, 120}

\* characters that are not the letter 'S': 's', 'T', '0', ' '
NonSChars == {115, 84, 48, 32}

\* the UTF-8 bytes of a character outside ASCII (U+00E9)
WideChar == <<195, 169>>

\* ln with the character at k replaced by c
SubstAt(ln, k, c) == [ln EXCEPT ![k] = c]

\* ln with the character at k replaced by the character WideChar
SubstWideAt(ln, k) == Take(ln, k - 1) \o WideChar \o Drop(ln, k)

\* what may follow the fields of a line
Suffixes == {<<>>, <<48>>, <<70, 70>>, <<122, 122>>, WideChar, <<32, 83>>}

\* lines that are rejected at each of the later steps: a wrong checksum
\* (S104123400B4), a payload too short for the tag (S10212EB), too long for
\* it (S904123400B5), an S0 line without address (S001FE), a byte pair that
\* is no number (S10412G400B5) or ends inside a character
RejectedLines ==
    { MkLine(1, <<18, 52, 0, 180>>),
      MkValidLine(1, <<18>>),
      MkValidLine(9, <<18, 52, 0>>),
      MkValidLine(0, <<>>),
      SubstAt(MkValidLine(1, <<18, 52, 0>>), 7, 71),
      SubstWideAt(MkValidLine(1, <<18, 52, 0>>), 8) }

\* lines that differ from a valid line in one character, are cut short, are
\* followed by further characters or declare no byte at all
MalformedLinePool ==
    UNION {{SubstAt(l, k, c) : k \in 2..Len(l), c \in NonHexChars} : l \in BaseLines}
    \cup UNION {{SubstAt(l, 1, c) : c \in NonSChars} : l \in BaseLines}
    \cup UNION {{SubstWideAt(l, k) : k \in 1..Len(l)} : l \in BaseLines}
    \cup UNION {{Take(l, k) : k \in 0..(Len(l) - 1)} : l \in BaseLines}
    \cup {<<CharS, 49, CharPlus, 52>> \o Take(HexString(<<18, 52, 0, 181>>), k) : k \in 0..8}
    \cup {l \o x : l \in BaseLines \cup RejectedLines, x \in Suffixes}
    \cup {<<CharS, 48 + t, 48, 48>> \o x : t \in 0..9, x \in Suffixes}
    \cup {WideChar, <<CharS>> \o WideChar, <<CharS, 49>> \o WideChar}

\* the hexadecimal letters of a line after its type digit
LetterPositions(ln) == {k \in 3..Len(ln) : ln[k] \in 65..70 \/ ln[k] \in 97..102}

\* ln with the letters at the positions P in the other case
ToggleCase(ln, P) ==
    [k \in DOMAIN ln |->
        IF k \notin P THEN ln[k]
        ELSE IF ln[k] \in 65..70 THEN ln[k] + 32 ELSE ln[k] - 32]

\* lines with letters in the byte count, address, payload and checksum
\* (S10A1234AB000000000055AF and the valid lines above), and the same with
\* a wrong last digit or one character that is no digit
CaseLines ==
    LET cased == BaseLines \cup {MkValidLine(1, <<18, 52, 171, 0, 0, 0, 0, 0, 85>>)}
    IN cased
       \cup {SubstAt(l, Len(l), 48) : l \in cased}
       \cup {SubstAt(l, 6, 103) : l \in cased}

\* the lines of CaseLines with every choice of upper and lower case letters
CaseLinePool ==
    UNION {{ToggleCase(l, P) : P \in SUBSET LetterPositions(l)} : l \in CaseLines}

InitParse ==
    /\ pc = "parse"
    /\ line \in LinePool \cup MalformedLinePool \cup CaseLinePool
    /\ result = Err("")
    /\ IdleChecksum
    /\ records = <<>>
    /\ text = <<>>
    /\ rest = <<>>
    /\ out = <<>>
    /\ rewritten = <<>>
    /\ IdleImage

\* line.parse::<Record>() returns or panics
FromStr ==
    /\ pc = "parse"
    /\ result' = Record_from_str(line)
    /\ pc' = "parsed"
    /\ UNCHANGED <<line, codec_vars, checksum_vars, image_vars>>

\* the record parsed is written again: record.encode()
Encode ==
    /\ pc = "parsed"
    /\ result.kind = "Ok"
    /\ rewritten' = encode(result.rec)
    /\ pc' = "encoded"
    /\ UNCHANGED <<records, text, rest, out, parse_vars, checksum_vars, image_vars>>

NextParse == FromStr \/ Encode

SpecParse == InitParse /\ [][NextParse]_vars

----------------------------------------------------------------------------
(* Scenario 4: checksum_of on one byte vector *)

MaxSumLen == 3

\* bytes at the ends and in the middle of the range of a u8
SumBytes == {0, 3, 127, 128, 255}

\* short vectors of every content, and long ones whose sum wraps many times
SumPool == SeqsUpTo(SumBytes, MaxSumLen) \cup {LongData(n) : n \in {255, 256, 300}}

InitChecksum ==
    /\ pc = "checksum"
    /\ summed \in SumPool
    /\ sum = 0
    /\ records = <<>>
    /\ text = <<>>
    /\ rest = <<>>
    /\ out = <<>>
    /\ rewritten = <<>>
    /\ IdleParse
    /\ IdleImage

\* checksum_of(&summed) returns
ChecksumOf ==
    /\ pc = "checksum"
    /\ sum' = checksum_of(summed)
    /\ pc' = "checksummed"
    /\ UNCHANGED <<summed, codec_vars, parse_vars, image_vars>>

NextChecksum == ChecksumOf

SpecChecksum == InitChecksum /\ [][NextChecksum]_vars

----------------------------------------------------------------------------
(* Image *)

Block(address, data) == [address |-> address, data |-> data]

\* address + data.len() as u32, as a build without overflow checks computes it
block_end(address, data) == U32AddWrapping(address, Len(data))

\* the same addition panics in a build with overflow checks
block_end_overflows(address, data) == U32AddOverflows(address, Len(data))

\* the addresses the range start..end iterates over, for end = start + n
range_addresses(start, n) ==
    IF U32Lt(start, U32AddWrapping(start, n))
    THEN {U32AddWrapping(start, k) : k \in 0..(n - 1)}
    ELSE {}

\* Range::contains
range_contains(start, end, addr) == U32Le(start, addr) /\ U32Lt(addr, end)

\* the overlap check of add_data finds an address of an existing block in the new range
overlaps_existing(bs, address, data) ==
    \E i \in DOMAIN bs :
        \E addr \in range_addresses(bs[i].address, Len(bs[i].data)) :
            range_contains(address, block_end(address, data), addr)

\* the results sort_unstable_by may leave: any order of the blocks that is
\* ascending by address (blocks with the same address in any order)
sort_unstable_by_address(bs) ==
    LET n == Len(bs)
        perms == {f \in [1..n -> 1..n] : \A i, j \in 1..n : i # j => f[i] # f[j]}
    IN {[i \in 1..n |-> bs[f[i]]] : f \in
           {g \in perms : \A i \in 1..(n - 1) : U32Le(bs[g[i]].address, bs[g[i + 1]].address)}}

\* the indices i of the pairs (i, i + 1) the filter of the merge loop accepts
contiguous_pairs(bs) ==
    {i \in 1..(Len(bs) - 1) :
        block_end(bs[i].address, bs[i].data) = bs[i + 1].address}

\* blocks[i_first].data.extend(last_data); blocks.remove(i_last)
merge_pair(bs, i) ==
    [j \in 1..(Len(bs) - 1) |->
        IF j < i THEN bs[j]
        ELSE IF j = i THEN Block(bs[i].address, bs[i].data \o bs[i + 1].data)
        ELSE bs[j + 1]]

\* the loop of add_data: merge the first contiguous pair until there is none
RECURSIVE merge_loop(_)
merge_loop(bs) ==
    IF contiguous_pairs(bs) = {} THEN bs
    ELSE merge_loop(merge_pair(bs, Min(contiguous_pairs(bs))))

\* an addition of add_data overflows: that of the new range, of the range of
\* an existing block, or of a block the merge loop looks at
add_data_overflows(bs, address, data) ==
    \/ block_end_overflows(address, data)
    \/ \E i \in DOMAIN bs : block_end_overflows(bs[i].address, bs[i].data)

\* the images add_data may leave when it returns
add_data(bs, address, data) ==
    {merge_loop(sorted) : sorted \in sort_unstable_by_address(Append(bs, Block(address, data)))}

\* add_data panics
add_data_panics(bs, address, data, checks) ==
    \/ checks /\ add_data_overflows(bs, address, data)
    \/ overlaps_existing(bs, address, data)

----------------------------------------------------------------------------
(* Scenario 5: add_data calls on an image that starts empty *)

MaxCalls == 3

TopAddress == u32(65535, 65535)

AddressPool == {u32(0, 0), u32(0, 3), u32(0, 4), u32(0, 5), TopAddress}

ImageDataPool == {<<>>, <<85>>, <<17, 34, 51, 68>>}

InitImage ==
    /\ pc = "image"
    /\ blocks = <<>>
    /\ inserted = <<>>
    /\ last_call = <<>>
    /\ overflow_checks \in BOOLEAN
    /\ address_format = ""
    /\ max_address = <<>>
    /\ emitted = <<>>
    /\ records = <<>>
    /\ text = <<>>
    /\ rest = <<>>
    /\ out = <<>>
    /\ rewritten = <<>>
    /\ IdleParse
    /\ IdleChecksum

\* i.add_data(address, &data) returns or panics
AddData ==
    /\ pc = "image"
    /\ Len(inserted) < MaxCalls
    /\ \E address \in AddressPool, data \in ImageDataPool :
          /\ last_call' = Block(address, data)
          /\ IF add_data_panics(blocks, address, data, overflow_checks)
             THEN /\ pc' = "panicked"
                  /\ UNCHANGED <<blocks, inserted>>
             ELSE /\ pc' = "image"
                  /\ blocks' \in add_data(blocks, address, data)
                  /\ inserted' = Append(inserted, Block(address, data))
    /\ UNCHANGED <<overflow_checks, records_vars, codec_vars, parse_vars, checksum_vars>>

NextImage == AddData

SpecImage == InitImage /\ [][NextImage]_vars

----------------------------------------------------------------------------
(* image_records *)

\* the number of slices data.chunks(32) yields
chunk_count(b) == (Len(b.data) + 31) \div 32

\* block.address + (i as u32) * 32 overflows
chunk_address_overflows(b, i) == U32AddOverflows(b.address, 32 * i)

\* the Block the closure builds for slice i (from 0) of block b, in a build
\* without overflow checks
chunk_block(b, i) ==
    Block(U32AddWrapping(b.address, 32 * i),
          SubSeq(b.data, 32 * i + 1, Min({32 * i + 32, Len(b.data)})))

\* the flat_map over the blocks: the chunks of all blocks, in block order
image_chunks(bs) ==
    Concat([k \in DOMAIN bs |-> [i \in 1..chunk_count(bs[k]) |-> chunk_block(bs[k], i - 1)]])

\* some addition of the flat_map overflows
image_chunks_overflow(bs) ==
    \E k \in DOMAIN bs : \E i \in 1..chunk_count(bs[k]) : chunk_address_overflows(bs[k], i - 1)

\* Iterator::max over the chunk addresses
max_chunk_address_first(bs) ==
    IF image_chunks(bs) = <<>> THEN <<>> ELSE <<image_chunks(bs)[1].address>>

max_chunk_address(bs) ==
    LET addresses == {image_chunks(bs)[k].address : k \in DOMAIN image_chunks(bs)}
    IN IF addresses = {} THEN <<>>
       ELSE <<CHOOSE a \in addresses : \A b \in addresses : U32Le(b, a)>>

\* the closure that maps a chunk to a record: Ok(record), or Panic
record_of_chunk_unchecked(format, max, c) ==
    CASE format = "Address16" -> Ok(Rec(1, u32(0, c.address[2]), c.data))
      [] format = "Address24" -> Ok(Rec(2, c.address, c.data))
      [] format = "Address32" -> Ok(Rec(3, c.address, c.data))
      [] OTHER ->
            IF max = <<>> THEN Panic("unwrap on None")
            ELSE IF max[1][1] = 0 THEN
                IF c.address[1] # 0 THEN Panic("try_into") ELSE Ok(Rec(1, c.address, c.data))
            ELSE IF max[1][1] <= 255 THEN Ok(Rec(2, c.address, c.data))
            ELSE Ok(Rec(3, c.address, c.data))

record_of_chunk(format, max, c) ==
    CASE format = "Address16" ->
            IF c.address[1] # 0 THEN Panic("try_into") ELSE Ok(Rec(1, c.address, c.data))
      [] format = "Address24" ->
            IF c.address[1] > 255 THEN Panic("explicit panic") ELSE Ok(Rec(2, c.address, c.data))
      [] format = "Address32" -> Ok(Rec(3, c.address, c.data))
      [] OTHER ->
            IF max = <<>> THEN Panic("unwrap on None")
            ELSE IF max[1][1] = 0 THEN
                IF c.address[1] # 0 THEN Panic("try_into") ELSE Ok(Rec(1, c.address, c.data))
            ELSE IF max[1][1] <= 255 THEN Ok(Rec(2, c.address, c.data))
            ELSE Ok(Rec(3, c.address, c.data))

----------------------------------------------------------------------------
(* Scenario 6: an image is built with add_data, then image_records iterates *)

MaxInserts == 2

AddressFormats == {"SmallestRequired", "Address16", "Address24", "Address32"}

\* addresses at the start and near the end of the 16, 24 and 32 bit ranges
ChunkAddressPool ==
    {u32(0, 0), u32(0, 32), u32(0, 65504), u32(0, 65520), u32(255, 65504), u32(255, 65520),
     u32(65535, 65504)}

\* n bytes, each different from its neighbours
ChunkData(n) == [i \in 1..n |-> (i * 7) % 256]

\* no byte, one full chunk, one byte more, two chunks and one byte
ChunkDataPool == {ChunkData(n) : n \in {0, 32, 33, 65}}

InitRecords ==
    /\ pc = "build"
    /\ blocks = <<>>
    /\ inserted = <<>>
    /\ last_call = <<>>
    /\ overflow_checks \in BOOLEAN
    /\ address_format \in AddressFormats
    /\ max_address = <<>>
    /\ emitted = <<>>
    /\ records = <<>>
    /\ text = <<>>
    /\ rest = <<>>
    /\ out = <<>>
    /\ rewritten = <<>>
    /\ IdleParse
    /\ IdleChecksum

\* i.add_data(address, &data) returns or panics while the image is built
BuildImage ==
    /\ pc = "build"
    /\ Len(inserted) < MaxInserts
    /\ \E address \in ChunkAddressPool, data \in ChunkDataPool :
          /\ last_call' = Block(address, data)
          /\ IF add_data_panics(blocks, address, data, overflow_checks)
             THEN /\ pc' = "panicked"
                  /\ UNCHANGED <<blocks, inserted>>
             ELSE /\ pc' = "build"
                  /\ blocks' \in add_data(blocks, address, data)
                  /\ inserted' = Append(inserted, Block(address, data))
    /\ UNCHANGED <<overflow_checks, records_vars, codec_vars, parse_vars, checksum_vars>>

\* image_records(&i, address_format) returns the iterator, or panics while it
\* computes max_address
ImageRecords ==
    /\ pc = "build"
    /\ IF overflow_checks /\ image_chunks_overflow(blocks)
       THEN pc' = "panicked" /\ max_address' = max_address
       ELSE pc' = "iterate" /\ max_address' = max_chunk_address(blocks)
    /\ UNCHANGED <<blocks, inserted, last_call, overflow_checks, address_format, emitted,
                   codec_vars, parse_vars, checksum_vars>>

\* next() on the iterator maps the next chunk to a record, or panics
NextRecord ==
    /\ pc = "iterate"
    /\ Len(emitted) < Len(image_chunks(blocks))
    /\ \E r \in {record_of_chunk(address_format, max_address,
                                  image_chunks(blocks)[Len(emitted) + 1])} :
          IF r.kind = "Panic"
          THEN pc' = "panicked" /\ emitted' = emitted
          ELSE pc' = "iterate" /\ emitted' = Append(emitted, r.rec)
    /\ UNCHANGED <<blocks, inserted, last_call, overflow_checks, address_format, max_address,
                   codec_vars, parse_vars, checksum_vars>>

\* next() on the iterator returns None
EndRecords ==
    /\ pc = "iterate"
    /\ Len(emitted) = Len(image_chunks(blocks))
    /\ pc' = "done"
    /\ UNCHANGED <<image_vars, codec_vars, parse_vars, checksum_vars>>

NextRecords == BuildImage \/ ImageRecords \/ NextRecord \/ EndRecords

SpecRecords == InitRecords /\ [][NextRecords]_vars

----------------------------------------------------------------------------
(* Claims about the writer and the round trip (Spec) *)

\* the byte count of the line of a record: itself, the address, the payload
ByteCount(r) == 1 + AddressWidth(r.t) + Len(r.data)

\* the address or count fits the width of the variant
WellFormedAddress(r) ==
    CASE AddressWidth(r.t) = 2 -> r.address[1] = 0
      [] AddressWidth(r.t) = 3 -> r.address[1] <= 255
      [] OTHER -> TRUE

EndsWithNul(d) == d # <<>> /\ d[Len(d)] = 0

ReadTerminated == pc \in {"done", "panicked"}

AllReadBack == pc = "done" /\ out = [i \in 1..Len(records) |-> Ok(records[i])]

\* C1 (as stated): for every sequence of records with well-formed addresses
\* and payloads of at most 254 bytes, reading the generated text yields
\* exactly Ok(r) for each record r, in order, and nothing else.
C1_RoundTripOriginal ==
    (/\ ReadTerminated
     /\ \A i \in DOMAIN records :
           WellFormedAddress(records[i]) /\ Len(records[i].data) <= 254)
    => AllReadBack

\* C1 (amended): for every sequence of records with well-formed addresses,
\* byte counts (1 + address width + payload length) of at most 255 and no S0
\* text ending in a NUL character, reading the generated text yields exactly
\* Ok(r) for each record r, in order, and nothing else.
C1_RoundTrip ==
    (/\ ReadTerminated
     /\ \A i \in DOMAIN records :
           /\ WellFormedAddress(records[i])
           /\ ByteCount(records[i]) <= 255
           /\ records[i].t = 0 => ~EndsWithNul(records[i].data))
    => AllReadBack

C1_Witness ==
    /\ pc = "done"
    /\ Len(records) >= 2
    /\ \A i \in DOMAIN records :
          /\ WellFormedAddress(records[i])
          /\ ByteCount(records[i]) <= 255
          /\ records[i].t = 0 => ~EndsWithNul(records[i].data)
    /\ \E i \in DOMAIN records : ByteCount(records[i]) = 255
    /\ \E i \in DOMAIN records : records[i].t = 2
    /\ AllReadBack

IsUpperHexDigit(c) == c \in 48..57 \/ c \in 65..70

\* the line of record r as the claim describes it
IsLineOf(ln, r) ==
    LET w == AddressWidth(r.t)
        n == Len(r.data)
        field == to_be_bytes(r.t, r.address) \o r.data
    IN /\ Len(ln) = 4 + 2 * (w + n) + 2
       /\ ln[1] = CharS
       /\ ln[2] = 48 + r.t
       /\ IsUpperHexDigit(ln[3]) /\ IsUpperHexDigit(ln[4])
       /\ HexVal(ln[3]) * 16 + HexVal(ln[4]) = 1 + w + n
       /\ SubSeq(ln, 5, 4 + 2 * (w + n)) = HexString(field)
       /\ IsHexDigit(ln[Len(ln) - 1]) /\ IsHexDigit(ln[Len(ln)])

\* C4: the generated text is the concatenation of one line per record, each
\* 'S', the type digit, the byte count 1 + address width + payload length as
\* two uppercase hex digits, the address and payload bytes in uppercase hex,
\* the checksum as two hex digits, and '\n'; n records give n newlines, the
\* last character is a newline, and no record gives the empty text.
C4_Format ==
    pc # "generate" =>
        /\ Cardinality({i \in DOMAIN text : text[i] = CharLF}) = Len(records)
        /\ text # <<>> => text[Len(text)] = CharLF
        /\ records = <<>> => text = <<>>
        /\ Len(Lines(text)) = Len(records)
        /\ \A i \in DOMAIN records : IsLineOf(Lines(text)[i], records[i])
        /\ text = Concat([i \in DOMAIN records |-> Lines(text)[i] \o <<CharLF>>])

\* C5: generate_srec_file does not return text for a sequence that holds a
\* record whose byte count exceeds 255.
C5_OversizeFatal ==
    (\E i \in DOMAIN records : ByteCount(records[i]) > 255) => pc = "generate"

\* the scenario is over: the text was written again, or a step failed fatally
RoundTripEnded == pc \in {"panicked", "unwrap_panicked", "rewritten"}

\* C16 (as stated): for every text generate_srec_file returns for records
\* whose byte counts are at most 255, reading the text and writing the records
\* that were read reproduces the text, character for character.
C16_ReadWriteOriginal ==
    (/\ RoundTripEnded
     /\ \A i \in DOMAIN records : ByteCount(records[i]) <= 255)
    => pc = "rewritten" /\ rewritten = text

\* C16 (amended): the same for records whose byte counts are at most 255 and
\* whose S0 texts do not end in a NUL character.
C16_ReadWrite ==
    (/\ RoundTripEnded
     /\ \A i \in DOMAIN records :
           /\ ByteCount(records[i]) <= 255
           /\ records[i].t = 0 => ~EndsWithNul(records[i].data))
    => pc = "rewritten" /\ rewritten = text

C16_Witness ==
    /\ pc = "rewritten"
    /\ Len(records) >= 2
    /\ \A i \in DOMAIN records :
          /\ ByteCount(records[i]) <= 255
          /\ records[i].t = 0 => ~EndsWithNul(records[i].data)
    /\ \E i \in DOMAIN records : records[i].t = 0 /\ records[i].data # <<>>
    /\ \E i \in DOMAIN records : ~WellFormedAddress(records[i])
    /\ rewritten = text
    /\ text # <<>>

----------------------------------------------------------------------------
(* Claims about read_records (SpecRead) *)

\* the lines of a text that are not blank, trimmed
NonBlankLines(s) ==
    LET trimmed == [i \in DOMAIN Lines(s) |-> trim(Lines(s)[i])]
    IN SelectSeq(trimmed, LAMBDA l : l # <<>>)

\* C2: read_records yields exactly one element per non-blank line, in line
\* order, each being the result the line has on its own; a failing line
\* stops nothing.
C2_OnePerLine ==
    ReadTerminated =>
        /\ Len(out) = Len(NonBlankLines(text))
        /\ \A i \in DOMAIN out : out[i] = Record_from_str(NonBlankLines(text)[i])

\* s with every '\n' replaced by "\r\n"
RECURSIVE WithCrLf(_)
WithCrLf(s) ==
    LET nl == {i \in DOMAIN s : s[i] = CharLF} IN
    IF nl = {} THEN s
    ELSE Take(s, Min(nl) - 1) \o <<CharCR, CharLF>> \o WithCrLf(Drop(s, Min(nl)))

\* s without its final line terminator
WithoutFinalTerminator(s) ==
    IF Len(s) >= 2 /\ s[Len(s) - 1] = CharCR /\ s[Len(s)] = CharLF THEN Take(s, Len(s) - 2)
    ELSE IF Len(s) >= 1 /\ s[Len(s)] = CharLF THEN Take(s, Len(s) - 1)
    ELSE s

\* an empty and a whitespace-only line, terminated
BlankLines == {<<CharLF>>, <<32, 9, CharCR, CharLF>>}

\* the positions of s where a line starts: its start, and after each '\n'
LineStarts(s) == {0} \cup {i \in DOMAIN s : s[i] = CharLF}

\* s with the blank line b inserted at the line start k
WithBlankLineAt(s, k, b) == Take(s, k) \o b \o Drop(s, k)

\* s with the blank line b inserted before each of its lines and after the
\* last one
RECURSIVE WithBlankLines(_, _)
WithBlankLines(s, b) ==
    LET nl == {i \in DOMAIN s : s[i] = CharLF} IN
    IF s = <<>> THEN b
    ELSE IF nl = {} THEN b \o s \o <<CharLF>> \o b
    ELSE b \o Take(s, Min(nl)) \o WithBlankLines(Drop(s, Min(nl)), b)

\* the first and the last line start of s
OuterLineStarts(s) ==
    {0} \cup {k \in LineStarts(s) : \A j \in LineStarts(s) : j <= k}

\* the texts the claim says are read like s
LineVariants(s) ==
    {WithCrLf(s), WithoutFinalTerminator(s)}
    \cup {WithBlankLines(s, b) : b \in BlankLines}
    \cup {WithBlankLineAt(s, k, <<32, 9, CharLF>>) : k \in OuterLineStarts(s)}

\* C17: replacing every '\n' by "\r\n", dropping the final terminator, or
\* inserting empty or whitespace-only lines anywhere does not change the
\* sequence of elements read_records yields.
C17_TerminatorsAndBlanks ==
    ReadTerminated =>
        \A v \in LineVariants(text) :
            read_records(v) = [out |-> out, panicked |-> pc = "panicked"]

C17_Witness ==
    /\ pc = "done"
    /\ Len(out) >= 2
    /\ \E i \in DOMAIN out : out[i].kind = "Ok"
    /\ \E i \in DOMAIN out : out[i].kind = "Err"
    /\ \E i \in DOMAIN text : text[i] = CharCR
    /\ Len(Lines(text)) > Len(out)
    /\ WithCrLf(text) # text
    /\ WithoutFinalTerminator(text) # text
    /\ \A v \in LineVariants(text) : read_records(v).out = out

----------------------------------------------------------------------------
(* Claims about Record::from_str (SpecParse) *)

\* 'S', a type digit, a non-zero byte count and exactly the declared number
\* of pairs of hex digits
IsDeclaredLine(ln) ==
    /\ Len(ln) >= 4
    /\ ln[1] = CharS
    /\ IsDigit(ln[2])
    /\ IsHexDigit(ln[3]) /\ IsHexDigit(ln[4])
    /\ HexVal(ln[3]) * 16 + HexVal(ln[4]) # 0
    /\ Len(ln) = 4 + 2 * (HexVal(ln[3]) * 16 + HexVal(ln[4]))
    /\ \A i \in 5..Len(ln) : IsHexDigit(ln[i])

TypeOf(ln) == ln[2] - 48

DeclaredCount(ln) == HexVal(ln[3]) * 16 + HexVal(ln[4])

DeclaredBytes(ln) ==
    [i \in 1..DeclaredCount(ln) |-> HexVal(ln[3 + 2 * i]) * 16 + HexVal(ln[4 + 2 * i])]

\* the declared bytes without the last one
BodyBytes(ln) == Take(DeclaredBytes(ln), DeclaredCount(ln) - 1)

LastByte(ln) == DeclaredBytes(ln)[DeclaredCount(ln)]

\* the checksum the claim describes: the sum modulo 256 of the byte count
\* and of the declared bytes but the last, complemented
ExpectedChecksum(ln) == 255 - (WrappingSum(<<DeclaredCount(ln)>> \o BodyBytes(ln)) % 256)

HasValidChecksum(ln) == LastByte(ln) = ExpectedChecksum(ln)

\* the line with its last byte replaced by c
WithLastByte(ln, c) == Take(ln, Len(ln) - 2) \o FormatHex2(c)

\* C3: a line of the declared shape yields ChecksumMismatch if and only if
\* its last byte differs from the checksum of the byte count and the other
\* declared bytes; exactly one of the 256 trailing bytes is accepted.
C3_ChecksumMismatchIff ==
    (pc = "parsed" /\ IsDeclaredLine(line)) =>
        /\ result = Err("ChecksumMismatch") <=> ~HasValidChecksum(line)
        /\ Cardinality({c \in Byte :
               Record_from_str(WithLastByte(line, c)) # Err("ChecksumMismatch")}) = 1

C3_Witness ==
    /\ pc = "parsed"
    /\ IsDeclaredLine(line)
    /\ DeclaredCount(line) >= 3
    /\ LastByte(line) = (ExpectedChecksum(line) + 1) % 256
    /\ result = Err("ChecksumMismatch")

\* C9: a type-0 line with valid structure and checksum decodes to Ok(S0) for
\* every number n >= 0 of bytes between byte count and checksum, n = 0 and
\* n = 1 included, when the text bytes are valid UTF-8.
C9_S0AnyLength ==
    (/\ pc = "parsed"
     /\ IsDeclaredLine(line)
     /\ TypeOf(line) = 0
     /\ HasValidChecksum(line)
     /\ IsValidUtf8(Drop(BodyBytes(line), 2)))
    => result.kind = "Ok" /\ result.rec.t = 0

\* the lengths of the claim: at least MinLen for S1..S3, exactly ExactLen for
\* S5..S9
LengthAccepted(t, n) ==
    CASE t = 1 -> n >= 2
      [] t = 2 -> n >= 3
      [] t = 3 -> n >= 4
      [] t = 5 -> n = 2
      [] t = 6 -> n = 3
      [] t = 7 -> n = 4
      [] t = 8 -> n = 3
      [] t = 9 -> n = 2

\* C10: with valid structure and checksum and n bytes between byte count and
\* checksum, S1, S2, S3 parse to Ok iff n >= 2, 3, 4, and S5, S6, S7, S8, S9
\* iff n = 2, 3, 4, 3, 2; every other n yields NotEnoughData.
C10_LengthRules ==
    (/\ pc = "parsed"
     /\ IsDeclaredLine(line)
     /\ TypeOf(line) \in {1, 2, 3, 5, 6, 7, 8, 9}
     /\ HasValidChecksum(line))
    => IF LengthAccepted(TypeOf(line), DeclaredCount(line) - 1)
       THEN result.kind = "Ok" /\ result.rec.t = TypeOf(line)
       ELSE result = Err("NotEnoughData")

C10_Witness ==
    /\ pc = "parsed"
    /\ IsDeclaredLine(line)
    /\ HasValidChecksum(line)
    /\ TypeOf(line) = 7
    /\ DeclaredCount(line) - 1 = 5
    /\ result = Err("NotEnoughData")

\* the characters of field j of a line (0: the byte count, j >= 1: the j-th
\* declared pair) are two hexadecimal digits
HexPair(ln, j) ==
    /\ Len(ln) >= 4 + 2 * j
    /\ IsHexDigit(ln[3 + 2 * j])
    /\ IsHexDigit(ln[4 + 2 * j])

\* field j, which starts a character, has its two characters and one of them
\* is no hexadecimal digit
BadField(ln, j) ==
    LET q == 3 + 2 * j IN
    /\ Len(ln) >= q
    /\ Len(ln) >= q + Utf8Width(ln[q])
    /\ ~IsHexDigit(ln[q]) \/ ~IsHexDigit(ln[q + Utf8Width(ln[q])])

\* field j is the first that is not well-formed, and it is a field of the line
FirstBadField(ln, j) ==
    /\ \A k \in 0..(j - 1) : HexPair(ln, k)
    /\ j >= 1 => (DeclaredCount(ln) # 0 /\ j <= DeclaredCount(ln))
    /\ BadField(ln, j)

\* C11: a line that starts with 'S' and a type digit, and whose byte-count
\* field or a declared byte pair holds a character that is no hexadecimal
\* digit while every earlier field is complete and well-formed, yields
\* UnexpectedCharacter (and so never Ok).
C11_NonHexRejected ==
    (/\ pc = "parsed"
     /\ Len(line) >= 2
     /\ line[1] = CharS
     /\ IsDigit(line[2])
     /\ \E j \in 0..(Len(line) \div 2) : FirstBadField(line, j))
    => result = Err("UnexpectedCharacter")

\* C12: a non-empty line whose first character is not 'S', and a line 'S'
\* followed by a character that is no ASCII digit, yield UnexpectedCharacter
\* whatever follows.
C12_BadStartRejected ==
    (/\ pc = "parsed"
     /\ line # <<>>
     /\ line[1] # CharS \/ (Len(line) >= 2 /\ ~IsDigit(line[2])))
    => result = Err("UnexpectedCharacter")

\* the number of characters Record::from_str reads of a line it accepts
ConsumedLen(ln) == 4 + 2 * from_str_radix_16(SubSeq(ln, 3, 4))

\* ln parses to Ok and no character follows its checksum
IsExactOkLine(ln) ==
    /\ Record_from_str(ln).kind = "Ok"
    /\ Len(ln) = ConsumedLen(ln)

IsProperPrefix(p, ln) == Len(p) < Len(ln) /\ Take(ln, Len(p)) = p

\* the lines of BaseLines, and one with a sign in its byte-count field
PrefixedLines == BaseLines \cup {<<CharS, 49, CharPlus, 52>> \o HexString(<<18, 52, 0, 181>>)}

\* C13: every proper prefix, the empty string included, of a line that parses
\* to Ok and has no character after its checksum yields NotEnoughData.
C13_PrefixNotEnoughData ==
    pc = "parsed" =>
        /\ (result.kind = "Ok" /\ Len(line) = ConsumedLen(line)) =>
               \A k \in 0..(Len(line) - 1) :
                   Record_from_str(Take(line, k)) = Err("NotEnoughData")
        /\ (\E l \in PrefixedLines : IsExactOkLine(l) /\ IsProperPrefix(line, l)) =>
               result = Err("NotEnoughData")

C13_Witness ==
    /\ pc = "parsed"
    /\ line = Take(MkValidLine(1, <<18, 52, 0>>), 9)
    /\ IsExactOkLine(MkValidLine(1, <<18, 52, 0>>))
    /\ result = Err("NotEnoughData")

\* C14: a line made of 'S', any type digit and the byte-count field "00"
\* yields ByteCountZero, whatever the type digit and whatever follows.
C14_ByteCountZero ==
    (/\ pc = "parsed"
     /\ Len(line) >= 4
     /\ line[1] = CharS
     /\ IsDigit(line[2])
     /\ line[3] = 48 /\ line[4] = 48)
    => result = Err("ByteCountZero")

C14_Witness ==
    /\ pc = "parsed"
    /\ line = <<CharS, 52, 48, 48>> \o WideChar
    /\ result = Err("ByteCountZero")

\* C15: no line whose type digit is 4 parses to Ok, one with a valid byte
\* count, bytes and checksum yields UnexpectedCharacter, and no record is
\* written as a line whose type digit is 4.
C15_S4Reserved ==
    (/\ pc = "parsed"
     /\ Len(line) >= 2
     /\ line[1] = CharS
     /\ line[2] = 52)
    => /\ result.kind # "Ok"
       /\ (IsDeclaredLine(line) /\ HasValidChecksum(line)) =>
              result = Err("UnexpectedCharacter")
       /\ \A r \in RecordPool :
              \A ln \in {Lines(generate_srec_file(<<r>>))[1]} : ln[2] # 52

C15_Witness ==
    /\ pc = "parsed"
    /\ IsDeclaredLine(line)
    /\ HasValidChecksum(line)
    /\ TypeOf(line) = 4
    /\ DeclaredCount(line) - 1 = 4
    /\ result = Err("UnexpectedCharacter")

\* the characters of a line up to the end of its declared bytes
DeclaredPart(ln) == Take(ln, 4 + 2 * DeclaredCount(ln))

\* the line is read as a record of type 0 and its fields are hex digits only
IsReadAsS0(ln, res) ==
    /\ res.kind = "Ok"
    /\ res.rec.t = 0
    /\ HexPair(ln, 0)
    /\ IsDeclaredLine(DeclaredPart(ln))

\* the bytes between the address field and the checksum
TextBytes(ln) == Drop(BodyBytes(DeclaredPart(ln)), 2)

\* s without the NUL bytes at its end
RECURSIVE StripNuls(_)
StripNuls(s) == IF EndsWithNul(s) THEN StripNuls(Take(s, Len(s) - 1)) ELSE s

\* address fields that replace the one of a line
S0Addresses == {<<0, 0>>, <<18, 52>>, <<255, 255>>}

\* C19: the header text of every S0 record the reader yields is the bytes
\* after the 2-byte address field without their trailing NUL bytes: it does
\* not end with a NUL, NUL bytes inside the text are kept, and the value of
\* the address field does not influence the result.
C19_S0TextTrimmed ==
    (pc = "parsed" /\ IsReadAsS0(line, result)) =>
        /\ result.rec.data = StripNuls(TextBytes(line))
        /\ ~EndsWithNul(result.rec.data)
        /\ \A i \in DOMAIN result.rec.data : result.rec.data[i] = TextBytes(line)[i]
        /\ \A i \in (Len(result.rec.data) + 1)..Len(TextBytes(line)) : TextBytes(line)[i] = 0
        /\ \A a \in S0Addresses :
              Record_from_str(MkValidLine(0, a \o TextBytes(line))) = result

C19_Witness ==
    /\ pc = "parsed"
    /\ IsReadAsS0(line, result)
    /\ TextBytes(line) = <<0, 72, 0>>
    /\ BodyBytes(DeclaredPart(line)) # <<0, 0, 0, 72, 0>>
    /\ result.rec.data = <<0, 72>>

----------------------------------------------------------------------------
(* Claims about checksum_of (SpecChecksum) *)

\* the sum of s[lo..hi] as a natural number, by halves
RECURSIVE PlainSumOf(_, _, _)
PlainSumOf(s, lo, hi) ==
    IF lo > hi THEN 0
    ELSE IF lo = hi THEN s[lo]
    ELSE PlainSumOf(s, lo, (lo + hi) \div 2) + PlainSumOf(s, (lo + hi) \div 2 + 1, hi)

PlainSum(s) == PlainSumOf(s, 1, Len(s))

\* C18: checksum_of(bytes) is 255 minus the sum of the bytes modulo 256 for
\* every byte sequence, 255 for the empty one, with no failure on overflow;
\* it is 0xF9 for [3, 0, 3] and 0xFC for [3, 0, 0], and a sequence followed by
\* its checksum sums to 0xFF modulo 256.
C18_ChecksumFormula ==
    pc = "checksummed" =>
        /\ sum \in Byte
        /\ sum = 255 - (PlainSum(summed) % 256)
        /\ summed = <<>> => sum = 255
        /\ summed = <<3, 0, 3>> => sum = 249
        /\ summed = <<3, 0, 0>> => sum = 252
        /\ PlainSum(summed \o <<sum>>) % 256 = 255

C18_Witness ==
    /\ pc = "checksummed"
    /\ Len(summed) >= 3
    /\ PlainSum(summed) > 2 * 256
    /\ PlainSum(summed) % 256 # 0
    /\ sum = 255 - (PlainSum(summed) % 256)

----------------------------------------------------------------------------
(* Claims about the image (SpecImage) *)

\* the address after the last byte of a block, not reduced to 32 bits
WideEnd(b) == U32AddWide(b.address, Len(b.data))

\* C6: after every add_data call that returns, the blocks are sorted by
\* ascending address, no two blocks share an address, and no block ends at
\* the address where another block starts.
C6_SortedNotAdjacent ==
    pc = "image" =>
        /\ \A i, j \in DOMAIN blocks : i < j => U32Lt(blocks[i].address, blocks[j].address)
        /\ \A i, j \in DOMAIN blocks : i # j => WideEnd(blocks[i]) # blocks[j].address

\* the ranges [a.address, a.address + len) and [b.address, b.address + len)
\* have an address in common
SharesAddress(a, b) ==
    LET start == IF U32Lt(a.address, b.address) THEN b.address ELSE a.address
        end == IF U32Lt(WideEnd(a), WideEnd(b)) THEN WideEnd(a) ELSE WideEnd(b)
    IN U32Lt(start, end)

\* C7: add_data fails fatally whenever the new range shares an address with
\* an existing block, and does not fail when it shares none.
C7_PanicsIffOverlap ==
    [][pc = "image" =>
          (pc' = "panicked" <=> \E i \in DOMAIN blocks : SharesAddress(blocks[i], last_call'))]_vars

\* the (address, byte) pairs a sequence of blocks holds
ByteMap(bs) ==
    UNION {{<<U32AddWide(bs[i].address, k - 1), bs[i].data[k]>> : k \in DOMAIN bs[i].data} :
        i \in DOMAIN bs}

\* C8: after any sequence of add_data calls that return, the blocks hold
\* exactly the inserted bytes at their addresses, ranges that touch are in
\* one block, and inserting 4, 4 and 1 bytes at 0, 5 and 4 gives one block of
\* 9 bytes at address 0.
C8_MappingIsUnion ==
    pc = "image" =>
        /\ ByteMap(blocks) = ByteMap(inserted)
        /\ \A i, j \in DOMAIN blocks :
              (i # j /\ blocks[i].data # <<>> /\ blocks[j].data # <<>>)
                  => WideEnd(blocks[i]) # blocks[j].address
        /\ inserted = <<Block(u32(0, 0), <<17, 34, 51, 68>>),
                        Block(u32(0, 5), <<17, 34, 51, 68>>),
                        Block(u32(0, 4), <<85>>)>>
              => blocks = <<Block(u32(0, 0), <<17, 34, 51, 68, 85, 17, 34, 51, 68>>)>>

----------------------------------------------------------------------------
(* Claims about image_records (SpecRecords) *)

\* the records the claim describes for block k of an image: record i (from
\* 0) at the address of the block plus 32 * i, not reduced to 32 bits, with
\* the bytes 32 * i up to 32 * i + 32 or the end of the block
ExpectedOfBlock(bs, k) ==
    [i \in 1..((Len(bs[k].data) + 31) \div 32) |->
        [block |-> k,
         address |-> U32AddWide(bs[k].address, 32 * (i - 1)),
         data |-> SubSeq(bs[k].data, 32 * (i - 1) + 1,
                         IF 32 * i <= Len(bs[k].data) THEN 32 * i ELSE Len(bs[k].data))]]

ExpectedRecords(bs) == Concat([k \in DOMAIN bs |-> ExpectedOfBlock(bs, k)])

\* C20: image_records emits, for each block in block order, ceil(len/32)
\* data records, the i-th (from 0) at block.address + 32*i with the bytes
\* [32*i, min(32*i+32, len)) of the block: every record has 1 to 32 bytes,
\* only the last record of a block may have fewer than 32, the record
\* addresses are strictly increasing and an empty block emits no record.
C20_ChunksOf32 ==
    pc \in {"iterate", "done"} =>
        LET expected == ExpectedRecords(blocks) IN
        /\ Len(emitted) <= Len(expected)
        /\ pc = "done" => Len(emitted) = Len(expected)
        /\ \A k \in DOMAIN emitted :
              /\ emitted[k].address = expected[k].address
              /\ emitted[k].data = expected[k].data
              /\ Len(emitted[k].data) \in 1..32
              /\ Len(emitted[k].data) < 32 =>
                     (k = Len(expected) \/ expected[k + 1].block # expected[k].block)
        /\ \A k \in 1..(Len(emitted) - 1) : U32Lt(emitted[k].address, emitted[k + 1].address)

\* the variant and the largest address of each forced format
ForcedVariant(format) ==
    CASE format = "Address16" -> 1
      [] format = "Address24" -> 2
      [] format = "Address32" -> 3

ForcedLimit(format) ==
    CASE format = "Address16" -> u32(0, 65535)
      [] format = "Address24" -> u32(255, 65535)
      [] format = "Address32" -> u32(65535, 65535)

\* the chunk the iterator maps next
NextChunk == image_chunks(blocks)[Len(emitted) + 1]

\* the record the iterator yielded last
LastEmitted == emitted[Len(emitted)]

\* a forced format is in use
IsForced == address_format # "SmallestRequired"

\* an iteration that ended without failure met no chunk beyond the range, and
\* its records have the variant of the format and the addresses of the chunks
ForcedDone ==
    (pc = "done" /\ IsForced) =>
        /\ \A k \in DOMAIN image_chunks(blocks) :
               U32Le(image_chunks(blocks)[k].address, ForcedLimit(address_format))
        /\ \A k \in DOMAIN emitted :
               /\ emitted[k].t = ForcedVariant(address_format)
               /\ emitted[k].address = image_chunks(blocks)[k].address

\* the call of image_records does not fail
ForcedCallReturns ==
    (pc = "build" /\ IsForced) => ~(overflow_checks /\ image_chunks_overflow(blocks))

\* a step of the iteration that maps a chunk
ForcedStep ==
    (pc = "iterate" /\ IsForced /\ (emitted' # emitted \/ pc' = "panicked")) =>
        /\ pc' = "panicked" <=> ~U32Le(NextChunk.address, ForcedLimit(address_format))
        /\ pc' # "panicked" =>
              /\ LastEmitted'.t = ForcedVariant(address_format)
              /\ LastEmitted'.address = NextChunk.address
              /\ LastEmitted'.data = NextChunk.data

\* C21: with a forced format, a step of the iteration fails fatally exactly
\* when the start address of its chunk exceeds the range of the format
\* (0xFFFF for Address16, 0xFFFFFF for Address24, never for Address32), and
\* otherwise yields an S1, S2 or S3 with the address of the chunk unchanged;
\* so the iteration ends without failure exactly when no chunk exceeds the
\* range.
C21_ForcedFormat == [](ForcedDone /\ ForcedCallReturns) /\ [][ForcedStep]_vars

C21_Witness ==
    /\ pc = "panicked"
    /\ address_format = "Address24"
    /\ max_address # <<>>
    /\ Len(emitted) >= 2
    /\ Len(image_chunks(blocks)) > Len(emitted)
    /\ emitted[Len(emitted)].address = u32(255, 65504)
    /\ NextChunk.address = u32(256, 0)

\* the largest start address of the records the claim describes (C20), not
\* reduced to 32 bits
MaxChunkStart(bs) ==
    LET starts == {ExpectedRecords(bs)[k].address : k \in DOMAIN ExpectedRecords(bs)}
    IN CHOOSE a \in starts : \A b \in starts : U32Le(b, a)

\* the variant the claim gives for the largest start address M
SmallestVariant(M) == IF M[1] = 0 THEN 1 ELSE IF M[1] <= 255 THEN 2 ELSE 3

IsSmallest == address_format = "SmallestRequired"

\* the call of image_records does not fail
SmallestCallReturns ==
    (pc = "build" /\ IsSmallest) => ~(overflow_checks /\ image_chunks_overflow(blocks))

\* every record has the variant chosen from the largest start address, and
\* an iteration that ended has yielded a record for every chunk
SmallestOneVariant ==
    (pc \in {"iterate", "done"} /\ IsSmallest) =>
        /\ \A k \in DOMAIN emitted : emitted[k].t = SmallestVariant(MaxChunkStart(blocks))
        /\ pc = "done" => Len(emitted) = Len(ExpectedRecords(blocks))
        /\ (pc = "done" /\ blocks = <<>>) => emitted = <<>>

\* no step of the iteration fails
SmallestStep == (pc = "iterate" /\ IsSmallest) => pc' # "panicked"

\* C22: with SmallestRequired the iteration completes without fatal failure
\* for every image, the empty one included (no record), and all records have
\* one variant, chosen from the largest chunk start address M of the image:
\* S1 if M <= 0xFFFF, S2 if 0xFFFF < M <= 0xFFFFFF, S3 otherwise.
C22_SmallestRequired ==
    [](SmallestCallReturns /\ SmallestOneVariant) /\ [][SmallestStep]_vars

C22_Witness ==
    /\ pc = "done"
    /\ IsSmallest
    /\ Len(blocks) = 2
    /\ Len(emitted) >= 3
    /\ emitted[1].address[1] = 0
    /\ MaxChunkStart(blocks) = u32(255, 65504)
    /\ \A k \in DOMAIN emitted : emitted[k].t = 2

\* byte k of a 32-bit value, byte 0 the least significant
ByteOf(v, k) ==
    CASE k = 0 -> v[2] % 256
      [] k = 1 -> v[2] \div 256
      [] k = 2 -> v[1] % 256
      [] OTHER -> v[1] \div 256

\* the number a sequence of up to four bytes is in big-endian order
ReadBigEndian(bs) ==
    LET p == [i \in 1..(4 - Len(bs)) |-> 0] \o bs
    IN u32(p[1] * 256 + p[2], p[3] * 256 + p[4])

\* the value has no bit above the width of the address type of variant t
WithinWidth(t, v) ==
    CASE AddressWidth(t) = 2 -> v[1] = 0
      [] AddressWidth(t) = 3 -> v[1] <= 255
      [] OTHER -> TRUE

\* the variants that carry an Address16, Address24 or Address32
AddressVariants == {1, 2, 3, 7, 8, 9}

BigEndianOf(t, v) ==
    LET b == to_be_bytes(t, v)
        w == AddressWidth(t)
    IN /\ Len(b) = w
       /\ \A j \in 1..w : b[j] = ByteOf(v, w - j)
       /\ WithinWidth(t, v) => ReadBigEndian(b) = v

\* C23: to_be_bytes returns exactly 2 bytes for an Address16, 3 for an
\* Address24 and 4 for an Address32, most significant byte first, and for a
\* value within the width of the type the bytes read back as a big-endian
\* number equal the value.
C23_ToBeBytes ==
    pc # "generate" =>
        \A i \in DOMAIN records :
            records[i].t \in AddressVariants =>
                BigEndianOf(records[i].t, records[i].address)

C23_Witness ==
    /\ pc = "read"
    /\ Len(records) = 2
    /\ records[1].t = 2 /\ records[1].address = u32(18, 13398)
    /\ records[2].t = 3 /\ records[2].address = u32(4660, 22136)
    /\ to_be_bytes(2, records[1].address) = <<18, 52, 86>>
    /\ to_be_bytes(3, records[2].address) = <<18, 52, 86, 120>>

\* the changes of case that are tried on a line: every choice of letters for
\* a line of up to six letters, and for a longer one each letter alone, all
\* letters, all upper case letters and all lower case letters
CaseChanges(ln) ==
    LET L == LetterPositions(ln)
    IN IF Cardinality(L) <= 6 THEN SUBSET L
       ELSE {{k} : k \in L}
            \cup {L, {k \in L : ln[k] \in 65..70}, {k \in L : ln[k] \in 97..102}}

\* C24: the reader accepts hexadecimal digits in either case: changing the
\* case of hex letters in the byte count, address, payload or checksum of a
\* line does not change the result of parsing it; the writer emits upper
\* case hexadecimal digits only.
C24_HexCase ==
    /\ pc = "parsed" =>
          \A P \in CaseChanges(line) : Record_from_str(ToggleCase(line, P)) = result
    /\ pc = "encoded" =>
          /\ Len(rewritten) >= 4
          /\ \A k \in 3..Len(rewritten) : IsUpperHexDigit(rewritten[k])

C24_Witness ==
    /\ pc = "encoded"
    /\ line = ToggleCase(MkValidLine(1, <<18, 52, 171, 0, 0, 0, 0, 0, 85>>), {4, 9, 24})
    /\ line[4] = 97
    /\ result = Ok(Rec(1, u32(0, 4660), <<171, 0, 0, 0, 0, 0, 85>>))
    /\ rewritten = MkValidLine(1, <<18, 52, 171, 0, 0, 0, 0, 0, 85>>)
    /\ rewritten # line

\* the variants that carry an Address24 or a Count24
Variants24 == {2, 6, 8}

\* the record with its value reduced modulo 2^24
Mod24(r) ==
    IF r.t \in Variants24 THEN Rec(r.t, u32(r.address[1] % 256, r.address[2]), r.data)
    ELSE r

\* the three low-order bytes of a value, most significant first
LowThreeBytes(v) == <<ByteOf(v, 2), ByteOf(v, 1), ByteOf(v, 0)>>

\* the bytes that the digits 5..10 of a written line stand for
AddressDigits(ln) ==
    [j \in 1..3 |-> HexVal(ln[3 + 2 * j]) * 16 + HexVal(ln[4 + 2 * j])]

\* C25: the writer encodes the value v of an S2, S6 or S8 record as the three
\* low-order bytes of v: for v > 0xFFFFFF the top byte is dropped without
\* failure, the line is the one for v mod 2^24 and reading it back returns
\* v mod 2^24; no Address24 or Count24 that the reader yields is above 0xFFFFFF.
C25_Low24 ==
    /\ (pc = "read" /\ out = <<>>) =>
          /\ text = generate_srec_file([i \in DOMAIN records |-> Mod24(records[i])])
          /\ \A i \in DOMAIN records :
                records[i].t \in Variants24 =>
                    AddressDigits(encode(records[i])) = LowThreeBytes(records[i].address)
    /\ \A i \in DOMAIN out :
          /\ records[i].t \in Variants24 => out[i] = Ok(Mod24(records[i]))
          /\ (out[i].kind = "Ok" /\ out[i].rec.t \in Variants24) =>
                U32Le(out[i].rec.address, u32(255, 65535))

C25_Witness ==
    /\ pc = "done"
    /\ records = <<Rec(6, u32(43981, 5), <<>>), Rec(2, u32(256, 1), <<1, 2>>)>>
    /\ out = <<Ok(Rec(6, u32(205, 5), <<>>)), Ok(Rec(2, u32(0, 1), <<1, 2>>))>>
    /\ encode(records[1]) = encode(Rec(6, u32(205, 5), <<>>))

\* the characters of a line, a character outside ASCII as one item that is
\* no digit and no letter
CharsOf(ln) ==
    LET RECURSIVE chars(_)
        chars(bs) ==
            IF bs = <<>> THEN <<>>
            ELSE <<IF Utf8Width(bs[1]) = 1 THEN bs[1] ELSE 1000>>
                 \o chars(Drop(bs, Utf8Width(bs[1])))
    IN chars(ln)

\* the errors of reading the two-character field at q of the characters cs:
\* none if it is two hexadecimal digits; a field that is cut short and
\* starts with another character may count as either error
FieldErrors(cs, q) ==
    IF Len(cs) < q THEN {"NotEnoughData"}
    ELSE IF Len(cs) < q + 1
         THEN IF IsHexDigit(cs[q]) THEN {"NotEnoughData"}
              ELSE {"NotEnoughData", "UnexpectedCharacter"}
    ELSE IF IsHexDigit(cs[q]) /\ IsHexDigit(cs[q + 1]) THEN {}
    ELSE {"UnexpectedCharacter"}

\* the payload length n is not one that the type tag t allows
WrongLength(t, n) ==
    CASE t \in {0, 1} -> n < 2
      [] t = 2 -> n < 3
      [] t = 3 -> n < 4
      [] t \in {5, 9} -> n # 2
      [] t \in {6, 8} -> n # 3
      [] t = 7 -> n # 4
      [] OTHER -> FALSE

RecognizedTypes == {0, 1, 2, 3, 5, 6, 7, 8, 9}

\* the errors of the type dispatch for the fields of a line
DispatchErrors(ln) ==
    IF TypeOf(ln) \notin RecognizedTypes THEN {"UnexpectedCharacter"}
    ELSE IF WrongLength(TypeOf(ln), DeclaredCount(ln) - 1) THEN {"NotEnoughData"}
    ELSE {}

\* the errors of the first step that fails, in the order of the steps: the
\* leading 'S', the type digit, the byte-count field, the byte count zero,
\* the declared byte pairs, the checksum, the type dispatch; none if no step
\* fails
FirstFailure(ln) ==
    LET cs == CharsOf(ln)
        n == HexVal(cs[3]) * 16 + HexVal(cs[4])
        bad == {j \in 1..n : FieldErrors(cs, 3 + 2 * j) # {}}
    IN IF Len(cs) < 1 THEN {"NotEnoughData"}
       ELSE IF cs[1] # CharS THEN {"UnexpectedCharacter"}
       ELSE IF Len(cs) < 2 THEN {"NotEnoughData"}
       ELSE IF ~IsDigit(cs[2]) THEN {"UnexpectedCharacter"}
       ELSE IF FieldErrors(cs, 3) # {} THEN FieldErrors(cs, 3)
       ELSE IF n = 0 THEN {"ByteCountZero"}
       ELSE IF bad # {}
            THEN FieldErrors(cs, 3 + 2 * (CHOOSE j \in bad : \A k \in bad : j <= k))
       ELSE IF ~HasValidChecksum(Take(cs, 4 + 2 * n)) THEN {"ChecksumMismatch"}
       ELSE DispatchErrors(cs)

\* the fields of the line are complete and well-formed up to the checksum
HasDeclaredFields(ln) ==
    /\ Len(ln) >= 4
    /\ ln[1] = CharS
    /\ IsDigit(ln[2])
    /\ IsHexDigit(ln[3]) /\ IsHexDigit(ln[4])
    /\ DeclaredCount(ln) # 0
    /\ Len(ln) >= 4 + 2 * DeclaredCount(ln)
    /\ IsDeclaredLine(Take(ln, 4 + 2 * DeclaredCount(ln)))

ReportsFirstFailure ==
    (pc = "parsed" /\ result.kind = "Err") => result.err \in FirstFailure(line)

ChecksumBeforeDispatch ==
    (/\ pc = "parsed"
     /\ HasDeclaredFields(line)
     /\ DispatchErrors(line) # {}
     /\ ~HasValidChecksum(DeclaredPart(line))) => result = Err("ChecksumMismatch")

ZeroBeforeDispatch ==
    (/\ pc = "parsed"
     /\ Len(line) >= 4
     /\ line[1] = CharS
     /\ IsDigit(line[2])
     /\ TypeOf(line) \notin RecognizedTypes
     /\ line[3] = 48 /\ line[4] = 48) => result = Err("ByteCountZero")

\* C26: the error reported for a line is that of the first step that fails,
\* in the order leading 'S', type digit, byte-count field, byte count zero,
\* declared byte pairs, checksum, type dispatch with the length each tag
\* requires; a line with an unrecognized tag or a payload too short for its
\* tag and a wrong checksum yields ChecksumMismatch, and a line with an
\* unrecognized tag and byte count 00 yields ByteCountZero.
C26_FirstFailure ==
    ReportsFirstFailure /\ ChecksumBeforeDispatch /\ ZeroBeforeDispatch

\* the first c characters of a line that has them
CharPrefix(ln, c) ==
    LET RECURSIVE width(_, _)
        width(pos, k) == IF k = 0 THEN pos ELSE width(pos + Utf8Width(ln[pos + 1]), k - 1)
    IN Take(ln, width(0, c))

\* the line has a byte-count field that is read as a number
HasByteCount(ln) ==
    /\ Len(ln) >= 4
    /\ \A k \in 1..4 : ln[k] < 128
    /\ from_str_radix_16_valid(SubSeq(ln, 3, 4))

\* the line has the characters that its byte count declares, and more
HasTrailing(ln) ==
    /\ HasByteCount(ln)
    /\ Len(CharsOf(ln)) > ConsumedLen(ln)

\* C27: characters that follow the checksum byte are ignored: if the first
\* 4 + 2 * byte_count characters of a line parse to a result, the line with
\* further characters appended parses to the same result.
C27_TrailingIgnored ==
    (pc = "parsed" /\ HasTrailing(line)) =>
        result = Record_from_str(CharPrefix(line, ConsumedLen(line)))

C27_Witness ==
    /\ pc = "parsed"
    /\ HasTrailing(line)
    /\ line = MkValidLine(1, <<18, 52, 0>>) \o <<122, 122>>
    /\ CharPrefix(line, ConsumedLen(line)) = MkValidLine(1, <<18, 52, 0>>)
    /\ result = Ok(Rec(1, u32(0, 4660), <<0>>))

\* the ranges of rs are non-empty, lie within the 32-bit address space and
\* no two of them have an address in common
IsDisjointRanges(rs) ==
    /\ \A i \in DOMAIN rs :
          /\ rs[i].data # <<>>
          /\ U32Le(WideEnd(rs[i]), <<65536, 0>>)
    /\ \A i, j \in DOMAIN rs : i # j => ~SharesAddress(rs[i], rs[j])

\* the orders in which the ranges of rs can be inserted
OrdersOf(rs) ==
    LET n == Len(rs)
        perms == {f \in [1..n -> 1..n] : \A i, j \in 1..n : i # j => f[i] # f[j]}
    IN {[i \in 1..n |-> rs[f[i]]] : f \in perms}

\* the outcome of inserting the ranges of rs in order into an empty image:
\* whether a call can panic, and the images that can be left
InsertAll(rs, checks) ==
    LET RECURSIVE go(_, _)
        go(st, k) ==
            IF k > Len(rs) THEN st
            ELSE go([panics |-> st.panics \/ \E bs \in st.images :
                                    add_data_panics(bs, rs[k].address, rs[k].data, checks),
                     images |-> UNION {add_data(bs, rs[k].address, rs[k].data) :
                                    bs \in {b \in st.images :
                                        ~add_data_panics(b, rs[k].address, rs[k].data, checks)}}],
                    k + 1)
    IN go([panics |-> FALSE, images |-> {<<>>}], 1)

\* a call that inserts a range disjoint from the ranges before it returns
DisjointInsertReturns ==
    pc = "panicked" => ~IsDisjointRanges(Append(inserted, last_call))

\* every order of the ranges inserted gives the blocks of this order
AnyOrderSameBlocks ==
    (pc = "image" /\ IsDisjointRanges(inserted)) =>
        \A rs \in OrdersOf(inserted) :
            /\ ~InsertAll(rs, overflow_checks).panics
            /\ InsertAll(rs, overflow_checks).images = {blocks}

\* C28: for any finite set of pairwise non-overlapping, non-empty ranges,
\* every order of inserting them into an empty image through add_data
\* returns without failure and gives the same final list of blocks.
C28_AnyOrder == DisjointInsertReturns /\ AnyOrderSameBlocks

\* the address and data of the records emitted, as ranges to insert
EmittedRanges == [k \in DOMAIN emitted |-> Block(emitted[k].address, emitted[k].data)]

\* the image was built from non-empty ranges and all its records were
\* emitted with format Address32
IsEmittedAddress32 ==
    /\ pc = "done"
    /\ address_format = "Address32"
    /\ \A i \in DOMAIN inserted : inserted[i].data # <<>>

\* C29: for any image built by add_data from non-empty ranges, inserting the
\* address and data of every record that image_records emits with format
\* Address32, in emission order, into a fresh image returns without failure
\* and yields an image equal to the original.
C29_RebuildFromRecords ==
    IsEmittedAddress32 =>
        /\ ~InsertAll(EmittedRanges, overflow_checks).panics
        /\ InsertAll(EmittedRanges, overflow_checks).images = {blocks}

\* the address of the last data byte of a record with data
LastByteAddress(r) == U32AddWide(r.address, Len(r.data) - 1)

\* the largest address of the width of variant t
WidthLimit(t) ==
    CASE t = 1 -> u32(0, 65535)
      [] t = 2 -> u32(255, 65535)
      [] OTHER -> u32(65535, 65535)

\* C30: with format SmallestRequired every data byte of every emitted record
\* lies at an address (record address + offset of the byte) representable in
\* the address width of the record: <= 0xFFFF for S1, <= 0xFFFFFF for S2.
C30_BytesWithinWidth ==
    (pc \in {"iterate", "done"} /\ IsSmallest) =>
        \A k \in DOMAIN emitted :
            (emitted[k].t \in {1, 2} /\ emitted[k].data # <<>>) =>
                U32Le(LastByteAddress(emitted[k]), WidthLimit(emitted[k].t))

====
